---- MODULE Spec2Model ----
(***************************************************************************)
(* Model of analyze.py: the sampler/imputer create_in_out_samples, the     *)
(* error metric of the four evaluators, the component selection of         *)
(* pc_regression, the compare_functions loop and the module-level COLS.    *)
(*                                                                         *)
(* A cell of a table is {} when it is missing (NaN) and {v} when it holds  *)
(* the number v.  A DataFrame is a sequence of [key, cells] records, in    *)
(* index order; an index may hold a key more than once (data.loc[isi, :]   *)
(* keeps the duplicates of a draw with replacement).                       *)
(***************************************************************************)
EXTENDS Integers, Sequences, FiniteSets, TLC

\* ---- bounds of the model ----
NumRows == 3
MaxSize == 3

\* ---- input domains ----
Columns == {"a", "b"}
NaN == {}
\* the rows a table is built from: a negative and a positive number, a
\* missing cell in either column
CellValues == {[a |-> {-3}, b |-> {1}], [a |-> {2}, b |-> {1}],
               [a |-> NaN, b |-> {1}], [a |-> {2}, b |-> NaN]}

Range(f) == {f[i] : i \in DOMAIN f}

\* every table of 0..NumRows rows, keyed 1..n
Frame(rows) == [i \in DOMAIN rows |-> [key |-> i, cells |-> rows[i]]]
DataTables == UNION {{Frame(rs) : rs \in [1..n -> CellValues]} : n \in 0..NumRows}

\* ---- pandas / numpy helpers, as create_in_out_samples uses them ----
Index(df) == [i \in DOMAIN df |-> df[i].key]

\* numpy.random.choice(data.index, in_sample_size): every draw with replacement
Choice(index, size) == [1..size -> Range(index)]

\* data.index[~data.index.isin(isi)]
OsiDropsNothing(index, isi) == index
OsiSkipsFirst(index, isi) ==
    SelectSeq(index, LAMBDA k : k \notin Range(isi) /\ k # index[1])
Osi(index, isi) == SelectSeq(index, LAMBDA k : k \notin Range(isi))

\* data.loc[keys, :].copy()  (keys of data are unique)
RowOf(df, k) == df[CHOOSE i \in DOMAIN df : df[i].key = k]
LocShifted(df, keys) ==
    [i \in DOMAIN keys |-> [key |-> keys[i], cells |-> RowOf(df, keys[1]).cells]]
Loc(df, keys) == [i \in DOMAIN keys |-> RowOf(df, keys[i])]

\* df.isnull().any().any()
IsNullAny(df) == \E i \in DOMAIN df : \E c \in Columns : df[i].cells[c] = NaN

RECURSIVE SumTo(_, _, _)
SumTo(df, c, n) ==
    IF n = 0 THEN 0
    ELSE SumTo(df, c, n - 1)
         + (IF df[n].cells[c] = NaN THEN 0 ELSE CHOOSE v \in df[n].cells[c] : TRUE)

\* df.mean() of one column: NaN cells are skipped; the mean of no value is NaN
Observed(df, c) == {i \in DOMAIN df : df[i].cells[c] # NaN}
ColumnSum(df, c) == SumTo(df, c, Len(df))

\* in_sample.mean().apply(numpy.floor): floor(NaN) is NaN
FloorMeanTruncates(df, c) ==
    IF Observed(df, c) = {} THEN NaN
    ELSE LET s == ColumnSum(df, c)
             n == Cardinality(Observed(df, c))
         IN  {IF s >= 0 THEN s \div n ELSE -((-s) \div n)}
FloorMean(df, c) ==
    IF Observed(df, c) = {} THEN NaN
    ELSE {ColumnSum(df, c) \div Cardinality(Observed(df, c))}

FillData(df) == [c \in Columns |-> FloorMean(df, c)]

\* line 122: the table whose column means become the fill values
FillSourceWholeTable(df, in_sample) == df
FillSource(df, in_sample) == in_sample

\* df.fillna(fill): a missing cell takes the fill of its column; a NaN fill
\* leaves the cell missing
Fillna(df, fill) ==
    [i \in DOMAIN df |->
        [key |-> df[i].key,
         cells |-> [c \in Columns |->
                      IF df[i].cells[c] = NaN THEN fill[c] ELSE df[i].cells[c]]]]

\* the local fill_data is an unbound name until line 122 runs
Unbound == <<>>
Bound(v) == <<v>>

\* a call that raised returns no table; isi is the draw it had made
Raised(err, isi) ==
    [status |-> err, isi |-> isi, in_sample |-> <<>>, osi |-> <<>>,
     out_sample |-> <<>>, fill_data |-> Unbound]

\* lines 120-123: is fill_data computed
FillComputedAlways(in_sample) == TRUE
FillComputed(in_sample) == IsNullAny(in_sample)

\* lines 114-129, for the draw isi of line 113
CreateInOutSamples(data, isi) ==
    LET osi == Osi(Index(data), isi)
        in0 == Loc(data, isi)
        out0 == Loc(data, osi)
        fill_data == IF FillComputed(in0)
                     THEN Bound(FillData(FillSource(data, in0))) ELSE Unbound
        in_sample == IF IsNullAny(in0) THEN Fillna(in0, fill_data[1]) ELSE in0
    IN  IF IsNullAny(out0) /\ fill_data = Unbound
        THEN Raised("NameError", isi)
        ELSE [status |-> "returned", isi |-> isi, in_sample |-> in_sample,
              osi |-> osi,
              out_sample |-> IF IsNullAny(out0) THEN Fillna(out0, fill_data[1])
                             ELSE out0,
              fill_data |-> fill_data]

\* line 113 then lines 114-129: every outcome of one call.  On an empty
\* index choice raises ValueError when a key is asked for; when none is,
\* it raises or returns the empty draw, depending on the numpy release.
EmptyDraw == <<>>
Calls(df, size) ==
    IF Len(df) = 0
    THEN {Raised("ValueError", EmptyDraw)}
         \cup (IF size = 0 THEN {CreateInOutSamples(df, EmptyDraw)} ELSE {})
    ELSE {CreateInOutSamples(df, isi) : isi \in Choice(Index(df), size)}

\* ---- the error metric of the evaluators ----
\* a float is finite (num/den, den > 0), inf, neginf or nan
Float(k) == [kind |-> "finite", num |-> k, den |-> 1]
NaNFloat == [kind |-> "nan", num |-> 0, den |-> 0]
Inf == [kind |-> "inf", num |-> 1, den |-> 0]
NegInf == [kind |-> "neginf", num |-> -1, den |-> 0]

Abs(k) == IF k < 0 THEN -k ELSE k

RECURSIVE SumSeq(_)
SumSeq(q) == IF q = <<>> THEN 0 ELSE q[1] + SumSeq(Tail(q))

\* eps.sum(): the sum of an empty Series is 0 or NaN, depending on the
\* pandas release
SeriesSum(eps) == IF eps = <<>> THEN {Float(0), NaNFloat} ELSE {Float(SumSeq(eps))}

RECURSIVE GCD(_, _)
GCD(x, y) == IF y = 0 THEN x ELSE GCD(y, x % y)

\* the value num/den, den > 0, in lowest terms (-0.0 and 0.0 are one value)
Finite(num, den) ==
    LET g == GCD(Abs(num), den)
    IN  [kind |-> "finite", num |-> num \div g, den |-> den \div g]

\* numpy.float64 / int: division by zero gives inf or nan, it does not raise
Divide(x, d) ==
    IF x.kind = "nan" THEN NaNFloat
    ELSE IF d = 0 THEN (IF x.num = 0 THEN NaNFloat ELSE IF x.num > 0 THEN Inf ELSE NegInf)
    ELSE IF d > 0 THEN Finite(x.num, x.den * d)
    ELSE Finite(-x.num, x.den * (-d))

\* (pred - ys[osi]).apply(numpy.abs)
Residuals(pred, ys, osi) == [i \in DOMAIN osi |-> Abs(pred[i] - ys[osi[i]])]

\* mse = eps.sum() / (eps.shape[0] - 2)
ErrorMetric(eps) == {Divide(x, Len(eps) - 2) : x \in SeriesSum(eps)}

\* ---- pc_regression: the number of components ----
\* var_target as a fraction: 0, 1/2, 9/10 (the value compare_functions
\* passes) and 1
Frac(a, b) == [num |-> a, den |-> b]
Targets == {Frac(0, 1), Frac(1, 2), Frac(9, 10), Frac(1, 1)}
AtMost(t, u) == t.num * u.den <= u.num * t.den
MaxSingular == 3

\* singular values come back non-negative and in descending order
Spectra(k) ==
    {q \in [1..k -> 0..MaxSingular] : \A i \in 1..k : \A j \in i..k : q[i] >= q[j]}

\* (s / s.sum()).cumsum(), kept as the running sums and the total
PropVar(q) == [cum |-> [i \in DOMAIN q |-> SumSeq(SubSeq(q, 1, i))], total |-> SumSeq(q)]

\* prop_var > var_target, entry by entry; 0/0 is nan and compares False
Exceeds(pv, t) ==
    [i \in DOMAIN pv.cum |-> pv.total # 0 /\ pv.cum[i] * t.den > t.num * pv.total]

\* numpy argmax of a boolean array: the 0-based place of the first True,
\* 0 when no entry is True
Argmax(b) ==
    IF \E i \in DOMAIN b : b[i] THEN (CHOOSE i \in DOMAIN b : b[i] /\ \A j \in 1..(i - 1) : ~b[j]) - 1
    ELSE 0

\* n = (prop_var > var_target).argmax() + 1
SelectN(pv, t) == Argmax(Exceeds(pv, t)) + 1

\* ---- the evaluators ----
\* the rows, targets and predictions an evaluator is run on
XsRows == {[a |-> {2}, b |-> {1}], [a |-> NaN, b |-> {1}]}
XsTables == UNION {{Frame(rs) : rs \in [1..k -> XsRows]} : k \in 0..NumRows}
YValues == {0, 3}
PredValues == {1, 3}

NoFloat == [kind |-> "none", num |-> 0, den |-> 0]
Failed(err) == [status |-> err, mse |-> NoFloat, eps |-> <<>>, n |-> 0, s |-> <<>>, var_target |-> Frac(0, 1)]
Scored(m, eps) == [status |-> "returned", mse |-> m, eps |-> eps, n |-> 0, s |-> <<>>, var_target |-> Frac(0, 1)]

\* fit on in_sample and predict on out_sample are library calls: they raise,
\* or predict one value of preds for the out-of-sample rows; then the lines
\* that compute eps and mse
Evaluate(r, ys, preds) ==
    IF r.status # "returned" THEN {Failed(r.status)}
    ELSE {Failed("LibraryError")}
         \cup UNION {{Scored(m, Residuals([i \in DOMAIN r.osi |-> p], ys, r.osi))
                        : m \in ErrorMetric(Residuals([i \in DOMAIN r.osi |-> p], ys, r.osi))}
                     : p \in preds}

\* every outcome of one evaluator call: its own draw, then fit, predict, mse
EvaluatorOutcomes(xs, ys, size, preds) ==
    UNION {Evaluate(r, ys, preds) : r \in Calls(xs, size)}

\* pc_regression: the svd of in_sample raises (it does on an empty matrix)
\* or gives singular values, n is selected, then the regression on the
\* projection is scored as above
PcOutcomes(xs, ys, size, t, preds) ==
    UNION {IF r.status # "returned" THEN {Failed(r.status)}
           ELSE {Failed("LibraryError")}
                \cup UNION {{[o EXCEPT !.n = SelectN(PropVar(q), t), !.s = q, !.var_target = t]
                               : o \in Evaluate(r, ys, preds)}
                            : q \in IF r.in_sample = <<>> THEN {}
                                    ELSE Spectra(IF Len(r.in_sample) < Cardinality(Columns)
                                                 THEN Len(r.in_sample)
                                                 ELSE Cardinality(Columns))}
           : r \in Calls(xs, size)}

\* ---- compare_functions ----
MaxSims == 2
\* the inputs the loop is run on
CmpTables == {Frame(<<[a |-> {2}, b |-> {1}], [a |-> {2}, b |-> {1}], [a |-> {2}, b |-> {1}]>>),
              Frame(<<[a |-> {2}, b |-> {1}], [a |-> NaN, b |-> {1}], [a |-> {2}, b |-> {1}]>>)}
CmpYs == <<3, 3, 3>>
CmpPreds == {3}
CmpTarget == Frac(9, 10)
CmpSizes == {1, 2}
Evaluators == {"mv_regression", "pc_regression", "regression_tree", "regression_forest"}
EmptyColumns == [e \in Evaluators |-> <<>>]

\* one pass of the loop body: one value appended to each of the four lists
AppendForestTwice(d, o) ==
    [e \in Evaluators |->
        IF e = "regression_forest" THEN d[e] \o <<o[e].mse, o[e].mse>> ELSE Append(d[e], o[e].mse)]
AppendAll(d, o) == [e \in Evaluators |-> Append(d[e], o[e].mse)]

\* pandas.DataFrame(d): one column per key, one row per list entry; lists of
\* unequal length raise
DataFrame(d) ==
    IF \A e, f \in DOMAIN d : Len(d[e]) = Len(d[f])
    THEN [status |-> "returned", columns |-> DOMAIN d,
          rows |-> [i \in 1..Len(d["mv_regression"]) |-> [e \in DOMAIN d |-> d[e][i]]]]
    ELSE [status |-> "ValueError", columns |-> {}, rows |-> <<>>]
NoTable == [status |-> "none", columns |-> {}, rows |-> <<>>]

\* ---- the module-level column list ----
MaxCalls == 2
InitialCOLS == <<"G_batting", "AB", "R", "H", "X2B", "X3B", "HR", "RBI",
                 "SB", "CS", "BB", "SO", "IBB", "HBP", "SH", "SF", "GIDP", "teamID",
                 "salary", "yearID">>

\* cols = COLS; cols.append('age'): cols is the same list object as COLS
AppendAge(cols) == Append(cols, "age")

\* all_data.dropna()
Dropna(df) ==
    Frame([i \in 1..Len(SelectSeq(df, LAMBDA r : \A c \in Columns : r.cells[c] # NaN))
             |-> SelectSeq(df, LAMBDA r : \A c \in Columns : r.cells[c] # NaN)[i].cells])

VARIABLES pc, data, in_sample_size, ret, data2, ret2, res, cf, table, COLS

vars == <<pc, data, in_sample_size, ret, data2, ret2, res, cf, table, COLS>>

NotCalled == Raised("none", EmptyDraw)

NoLoop == [num_sims |-> 0, i |-> 0, d |-> EmptyColumns, xs |-> <<>>,
           in_sample_size |-> 0, draws |-> 0]

Init ==
    /\ pc = "idle"
    /\ data = <<>>
    /\ in_sample_size = 0
    /\ ret = NotCalled
    /\ data2 = <<>>
    /\ ret2 = NotCalled
    /\ res = Failed("none")
    /\ cf = NoLoop
    /\ table = NoTable
    /\ COLS = InitialCOLS

\* the same table with every row that the draw left out replaced by cells
Mutate(df, isi, cells) ==
    [i \in DOMAIN df |->
        IF df[i].key \in Range(isi) THEN df[i] ELSE [key |-> df[i].key, cells |-> cells]]

\* the rows put in place of the rows the draw left out
ReplacementCells == {[a |-> NaN, b |-> {1}], [a |-> {2}, b |-> NaN]}

\* create_in_out_samples(data, in_sample_size), and the same call with the
\* same draw on a table that differs in the rows left out of the draw
create_in_out_samples ==
    \E df \in DataTables, size \in 0..MaxSize :
        /\ pc = "idle"
        /\ pc' = "create_in_out_samples"
        /\ data' = df
        /\ in_sample_size' = size
        /\ \E r \in Calls(df, size) :
             /\ ret' = r
             /\ \E cells \in ReplacementCells :
                  /\ data2' = Mutate(df, r.isi, cells)
                  /\ ret2' = IF r.status = "ValueError" THEN r
                             ELSE CreateInOutSamples(data2', r.isi)
        /\ UNCHANGED <<res, cf, table, COLS>>

\* the interpreter is back at the prompt: the results of the call are
\* dropped, nothing of them is kept for the next call
discard ==
    /\ pc # "idle"
    /\ pc' = "idle"
    /\ data' = <<>>
    /\ in_sample_size' = 0
    /\ ret' = NotCalled
    /\ data2' = <<>>
    /\ ret2' = NotCalled
    /\ res' = Failed("none")
    /\ cf' = NoLoop
    /\ table' = NoTable
    /\ UNCHANGED COLS

Sampler == <<data, in_sample_size, ret, data2, ret2>>

\* mv_regression(xs, ys, in_sample_size)
mv_regression ==
    \E xs \in XsTables, size \in 0..MaxSize :
      \E ys \in [1..Len(xs) -> YValues] :
        /\ pc = "idle"
        /\ pc' = "mv_regression"
        /\ res' \in EvaluatorOutcomes(xs, ys, size, PredValues)
        /\ UNCHANGED <<Sampler, cf, table, COLS>>

\* pc_regression(xs, ys, in_sample_size, var_target)
pc_regression ==
    \E xs \in XsTables, size \in 0..MaxSize, t \in Targets :
      \E ys \in [1..Len(xs) -> YValues] :
        /\ pc = "idle"
        /\ pc' = "pc_regression"
        /\ res' \in PcOutcomes(xs, ys, size, t, PredValues)
        /\ UNCHANGED <<Sampler, cf, table, COLS>>

\* regression_tree(xs, ys, max_depth, in_sample_size)
regression_tree ==
    \E xs \in XsTables, size \in 0..MaxSize :
      \E ys \in [1..Len(xs) -> YValues] :
        /\ pc = "idle"
        /\ pc' = "regression_tree"
        /\ res' \in EvaluatorOutcomes(xs, ys, size, PredValues)
        /\ UNCHANGED <<Sampler, cf, table, COLS>>

\* regression_forest(xs, ys, num_classifiers, in_sample_size)
regression_forest ==
    \E xs \in XsTables, size \in 0..MaxSize :
      \E ys \in [1..Len(xs) -> YValues] :
        /\ pc = "idle"
        /\ pc' = "regression_forest"
        /\ res' \in EvaluatorOutcomes(xs, ys, size, PredValues)
        /\ UNCHANGED <<Sampler, cf, table, COLS>>

\* compare_functions(xs, ys, num_sims, in_sample_size): lines 320-323
compare_functions ==
    \E xs \in CmpTables, sims \in 0..MaxSims, size \in CmpSizes :
        /\ pc = "idle"
        /\ pc' = "compare_functions_loop"
        /\ cf' = [num_sims |-> sims, i |-> 0, d |-> EmptyColumns, xs |-> xs,
                  in_sample_size |-> size, draws |-> 0]
        /\ UNCHANGED <<Sampler, res, table, COLS>>

\* the outcomes of the four calls of one pass, each with its own draw
PassOutcomes(c) ==
    [mv_regression : EvaluatorOutcomes(c.xs, CmpYs, c.in_sample_size, CmpPreds),
     pc_regression : PcOutcomes(c.xs, CmpYs, c.in_sample_size, CmpTarget, CmpPreds),
     regression_tree : EvaluatorOutcomes(c.xs, CmpYs, c.in_sample_size, CmpPreds),
     regression_forest : EvaluatorOutcomes(c.xs, CmpYs, c.in_sample_size, CmpPreds)]

\* lines 325-338: one pass of the loop; a call that raises ends
\* compare_functions, the calls after it are not made
CallOrder == <<"mv_regression", "pc_regression", "regression_tree", "regression_forest">>
FirstFailure(o) ==
    IF \E k \in 1..4 : o[CallOrder[k]].status # "returned"
    THEN CHOOSE k \in 1..4 : /\ o[CallOrder[k]].status # "returned"
                             /\ \A j \in 1..(k - 1) : o[CallOrder[j]].status = "returned"
    ELSE 0
compare_functions_pass ==
    /\ pc = "compare_functions_loop"
    /\ cf.i < cf.num_sims
    /\ \E o \in PassOutcomes(cf) :
         LET k == FirstFailure(o) IN
         IF k = 0
         THEN /\ cf' = [cf EXCEPT !.i = @ + 1, !.d = AppendAll(@, o), !.draws = @ + 4]
              /\ pc' = "compare_functions_loop"
         ELSE /\ cf' = [cf EXCEPT !.draws = @ + k,
                                  !.d = [e \in Evaluators |->
                                           IF \E j \in 1..(k - 1) : CallOrder[j] = e
                                           THEN Append(cf.d[e], o[e].mse) ELSE cf.d[e]]]
              /\ pc' = "compare_functions_raised"
    /\ UNCHANGED <<Sampler, res, table, COLS>>

\* line 340
compare_functions_return ==
    /\ pc = "compare_functions_loop"
    /\ cf.i = cf.num_sims
    /\ table' = DataFrame(cf.d)
    /\ pc' = IF table'.status = "returned" THEN "compare_functions" ELSE "compare_functions_raised"
    /\ UNCHANGED <<Sampler, res, cf, COLS>>

\* year_based_significance_regression(file_path): lines 41-52, then the
\* per-year fits, which raise or finish
year_based_significance_regression ==
    \E file \in DataTables, fits \in {"returned", "LibraryError"} :
        /\ pc = "idle"
        /\ Len(COLS) < Len(InitialCOLS) + MaxCalls
        /\ COLS' = AppendAge(COLS)
        /\ data' = Dropna(file)
        /\ in_sample_size' = Len(data') \div 2
        /\ \E r \in Calls(data', in_sample_size') :
             /\ ret' = r
             /\ pc' = IF r.status = "returned" /\ fits = "returned"
                      THEN "year_based_significance_regression"
                      ELSE "year_based_significance_regression_raised"
        /\ data2' = <<>>
        /\ ret2' = NotCalled
        /\ UNCHANGED <<res, cf, table>>

Next == create_in_out_samples \/ discard

NextEval == mv_regression \/ pc_regression \/ regression_tree \/ regression_forest \/ discard
SpecEval == Init /\ [][NextEval]_vars

NextCompare == compare_functions \/ compare_functions_pass \/ compare_functions_return \/ discard
SpecCompare == Init /\ [][NextCompare]_vars

NextYear == year_based_significance_regression \/ discard
SpecYear == Init /\ [][NextYear]_vars

Spec == Init /\ [][Next]_vars

\* ---- create_in_out_samples: the claims ----
Sampled == pc = "create_in_out_samples"
Returned == Sampled /\ ret.status = "returned"
Keys(df) == Range(Index(df))
HasMissing(df) == \E i \in DOMAIN df : \E c \in Columns : df[i].cells[c] = NaN
\* the rows of the input table that the draw picked, and those it left out
DrawnRows == {data[i] : i \in {j \in DOMAIN data : data[j].key \in Range(ret.isi)}}
LeftRows == {data[i] : i \in {j \in DOMAIN data : data[j].key \notin Range(ret.isi)}}
MissingIn(rows) == \E r \in rows : \E c \in Columns : r.cells[c] = NaN

\* C1: for every in_sample_size >= 1 and every draw, the returned isi and
\* osi have no key in common.
C1_Disjoint ==
    (Returned /\ in_sample_size >= 1) => Range(ret.isi) \cap Range(ret.osi) = {}
C1_Witness ==
    /\ Returned /\ in_sample_size >= 2
    /\ Cardinality(Range(ret.isi)) < Len(ret.isi)
    /\ ret.osi # <<>>

\* C8: osi is exactly the keys of the table that were not drawn into isi;
\* every key of the table is in isi or in osi.
C8_Complement ==
    Returned =>
        /\ Range(ret.osi) = Keys(data) \ Range(ret.isi)
        /\ Range(ret.isi) \cup Range(ret.osi) = Keys(data)
        /\ Len(ret.osi) = Cardinality(Range(ret.osi))
C8_Witness ==
    /\ Returned /\ in_sample_size > Len(data)
    /\ ret.osi # <<>> /\ Len(ret.isi) = in_sample_size

\* C2: on a table with no missing cell, every returned row of in_sample and
\* of out_sample carries the cells of the input row with the same key.
SameCells(out, df) ==
    \A i \in DOMAIN out :
        \E j \in DOMAIN df : df[j].key = out[i].key /\ df[j].cells = out[i].cells
C2_Unchanged ==
    (Sampled /\ ~HasMissing(data) /\ ret.status # "ValueError") =>
        /\ ret.status = "returned"
        /\ Index(ret.in_sample) = ret.isi
        /\ Index(ret.out_sample) = ret.osi
        /\ SameCells(ret.in_sample, data)
        /\ SameCells(ret.out_sample, data)
C2_Witness ==
    /\ Returned /\ ~HasMissing(data)
    /\ Len(ret.in_sample) >= 2 /\ Len(ret.out_sample) >= 1
    /\ \E i, j \in DOMAIN data : data[i].cells # data[j].cells

\* C3: the fill values depend only on the in-sample rows: the call on a
\* table that differs only in rows left out of the draw computes the same
\* fill values, each the floor of the mean of the observed in-sample cells
\* of its column, and a missing cell of a returned table holds that value.
IsFloorOfMean(fill, rows, c) ==
    LET obs == {i \in DOMAIN rows : rows[i].cells[c] # NaN}
        s == ColumnSum(rows, c)
        n == Cardinality(obs)
    IN  IF obs = {} THEN fill = NaN
        ELSE \E f \in fill : fill = {f} /\ f * n <= s /\ s < (f + 1) * n
FilledWith(out, df, fill) ==
    \A i \in DOMAIN out : \A c \in Columns :
        RowOf(df, out[i].key).cells[c] = NaN => out[i].cells[c] = fill[c]
C3_FillFromInSample ==
    (Sampled /\ ret.status # "ValueError") =>
        /\ ret.fill_data = ret2.fill_data
        /\ ret.fill_data # Unbound =>
              \A c \in Columns :
                  IsFloorOfMean(ret.fill_data[1][c], Loc(data, ret.isi), c)
        /\ (ret.status = "returned" /\ ret.fill_data # Unbound) =>
              /\ FilledWith(ret.in_sample, data, ret.fill_data[1])
              /\ FilledWith(ret.out_sample, data, ret.fill_data[1])
        /\ (ret2.status = "returned" /\ ret.fill_data # Unbound) =>
              /\ FilledWith(ret2.in_sample, data2, ret.fill_data[1])
              /\ FilledWith(ret2.out_sample, data2, ret.fill_data[1])
C3_Witness ==
    /\ Returned /\ ret2.status = "returned"
    /\ data2 # data
    /\ ret.fill_data # Unbound
    /\ ret.fill_data[1]["a"] = {-1}
    /\ FillData(data)["a"] # FillData(data2)["a"]
    /\ \E i \in DOMAIN ret2.out_sample :
           data2[ret2.osi[i]].cells["a"] = NaN /\ ret2.out_sample[i].cells["a"] = {-1}

\* C9 as stated: the call fails exactly when the drawn in-sample rows hold
\* no missing cell and some out-of-sample row does; in every other case it
\* returns normally (stated for in_sample_size >= 1, where the outcome of
\* the draw is the same in every numpy release).
C9_FailsOnlyOnUnfilled ==
    (Sampled /\ in_sample_size >= 1) =>
        (ret.status # "returned" <=> (~MissingIn(DrawnRows) /\ MissingIn(LeftRows)))

\* C9 amended: on a non-empty table the call fails (NameError, no table
\* returned) exactly when the drawn in-sample rows hold no missing cell and
\* some out-of-sample row does, and returns normally in every other case;
\* on an empty table with in_sample_size >= 1 the draw itself fails.
C9_Amended ==
    Sampled =>
        /\ data # <<>> =>
              /\ ret.status = "NameError" <=> (~MissingIn(DrawnRows) /\ MissingIn(LeftRows))
              /\ ret.status \in {"NameError", "returned"}
              /\ ret.status = "NameError" => ret.out_sample = <<>> /\ ret.fill_data = Unbound
        /\ (data = <<>> /\ in_sample_size >= 1) => ret.status = "ValueError"
C9_Witness ==
    /\ Sampled /\ ret.status = "NameError"
    /\ ret.isi # <<>> /\ ~MissingIn(DrawnRows) /\ MissingIn(LeftRows)

\* C10: when a column is missing in every drawn in-sample row, the call
\* fills that column with 0 and no missing cell remains in the returned
\* in_sample and out_sample.
AllMissingInSample(c) ==
    ret.isi # <<>> /\ \A r \in DrawnRows : r.cells[c] = NaN
C10_ZeroFill ==
    \A c \in Columns :
        (Returned /\ AllMissingInSample(c)) =>
            /\ ~HasMissing(ret.in_sample) /\ ~HasMissing(ret.out_sample)
            /\ \A i \in DOMAIN ret.in_sample : ret.in_sample[i].cells[c] = {0}
\* ---- the evaluators: the claims ----
Scoring == pc \in Evaluators /\ res.status = "returned"
NonNegative(m) == m.kind = "inf" \/ (m.kind = "finite" /\ m.num >= 0)

\* C4: the error metric returned by the four evaluators is non-negative
\* for every out-of-sample row count (stated here for the counts 1, 2, 3,
\* ..., where the sum of the residuals is the same in every pandas release).
C4_NonNegative ==
    (Scoring /\ Len(res.eps) >= 1) => NonNegative(res.mse)

\* C5: for a fixed prop_var ending at 1, the selected component count does
\* not grow as var_target decreases: every target t2 <= var_target, the
\* target 1.0 included, selects at most as many components as var_target.
C5_Monotone ==
    (pc = "pc_regression" /\ res.status = "returned" /\ SumSeq(res.s) > 0) =>
        \A t2 \in Targets :
            AtMost(t2, res.var_target) => SelectN(PropVar(res.s), t2) <= res.n

\* C6: after any sequence of calls the module-level COLS is the list the
\* module was loaded with.
C6_ColsFixed == COLS = InitialCOLS

\* C7: compare_functions returns a table of exactly num_sims rows and the
\* four columns; every pass of the loop appends one value to each of the
\* four lists, each from a call that made its own draw.
C7_Table ==
    /\ pc = "compare_functions_loop" =>
          /\ cf.i <= cf.num_sims
          /\ \A e \in Evaluators : Len(cf.d[e]) = cf.i
          /\ cf.draws = 4 * cf.i
    /\ pc = "compare_functions" =>
          /\ table.status = "returned"
          /\ Len(table.rows) = cf.num_sims
          /\ table.columns = Evaluators
          /\ Cardinality(table.columns) = 4
          /\ \A k \in DOMAIN table.rows : DOMAIN table.rows[k] = Evaluators
          /\ cf.draws = 4 * cf.num_sims
    /\ pc = "compare_functions_raised" => table.status = "none"
C7_Witness ==
    /\ pc = "compare_functions"
    /\ cf.num_sims = 2
    /\ Len(table.rows) = 2
    /\ table.rows[1] # table.rows[2]
====
